---------------------------- MODULE Spec2Model ----------------------------
(***************************************************************************)
(* KeyCraftsman (src/src/key_craftsman/key_craftsman.py): the character-   *)
(* set filtering and key-assembly pipeline, the text wrapper, the encoder, *)
(* the per-instance caching of `key`/`keys` and the parallel bundle.       *)
(*                                                                         *)
(* A Python str is a sequence of one-character strings; a bytes object is  *)
(* a sequence of byte values.  A value handed back to the caller is a      *)
(* record [t, v] with t in "None", "str", "bytes".                         *)
(*                                                                         *)
(* Scale.  The string module's character classes are represented by a few  *)
(* characters each (one per class the exclusion catalog can tell apart),   *)
(* and _MIN_CAPACITY / _MAX_CAPACITY by small numbers, so that the cyclic  *)
(* buffer, the samples and the keys stay enumerable.  The structure of     *)
(* every definition is the source's.                                       *)
(***************************************************************************)
EXTENDS Integers, Sequences, FiniteSets, TLC

(***************************************************************************)
(* Bounds of the model.                                                    *)
(***************************************************************************)
\* largest key_length a generator is constructed with
MaxLen == 3
\* largest num_of_keys a generator is constructed with
MaxKeys == 2
\* stand-in for _MIN_CAPACITY = int(1e5): the size of the cyclic buffer
_MIN_CAPACITY == 18
\* stand-in for _MAX_CAPACITY = sys.maxsize
_MAX_CAPACITY == 60

(***************************************************************************)
(* Sequence helpers (str methods and set(...) of the source).              *)
(***************************************************************************)
Min(a, b) == IF a <= b THEN a ELSE b

Max(a, b) == IF a >= b THEN a ELSE b

Abs(a) == IF a >= 0 THEN a ELSE 0 - a

\* set(s)
CharSet(s) == {s[i] : i \in DOMAIN s}

\* s.count(c)
Count(s, c) == Cardinality({i \in DOMAIN s : s[i] = c})

\* s[:n] for n >= 0
Prefix(s, n) == SubSeq(s, 1, Min(n, Len(s)))

\* s.translate(str.maketrans("", "", del)): delete every character of del
Translate(s, del) == SelectSeq(s, LAMBDA c : c \notin del)

(***************************************************************************)
(* string module constants, one or two representatives per class:          *)
(*   lowercase  a (a-e), f (f), g (g-z);  uppercase  A (A-F), G (G-Z);     *)
(*   digits  0 (0-7), 8 (8-9);  punctuation  # +;  whitespace  space, tab. *)
(***************************************************************************)
ascii_lowercase == <<"a", "f", "g">>

ascii_uppercase == <<"A", "G">>

ascii_letters == ascii_lowercase \o ascii_uppercase

digits == <<"0", "8">>

hexdigits == digits \o <<"a", "f">> \o <<"A">>

octdigits == <<"0">>

punctuation == <<"#", "+">>

whitespace == <<" ", "\t">>

_ALL_CHARS == ascii_letters \o digits \o punctuation

_ALL_CHARS_LEN == Len(_ALL_CHARS)

\* _UNIQUE_DISABLED = {"ascii_punct": 10, "oct_ascii_punct": 2}: the two
\* sizes are the numbers of characters those exclusions leave (the digits,
\* the non-octal digits), taken here from the model's classes.
_UNIQUE_DISABLED == << [name |-> "ascii_punct", size |-> Len(digits)],
                       [name |-> "oct_ascii_punct", size |-> Len(digits) - Len(octdigits)] >>

(***************************************************************************)
(* Results of calls that may raise: [ok |-> TRUE, val |-> v] or            *)
(* [ok |-> FALSE, err |-> e, val |-> <<>>].                                *)
(***************************************************************************)
Ok(v) == [ok |-> TRUE, err |-> "", val |-> v]

Raise(e) == [ok |-> FALSE, err |-> e, val |-> <<>>]

(***************************************************************************)
(* An exclusion spec (exclude_chars): kind "none" is the empty default "", *)
(* "tag" a str that is a key of the exclusion chart, "lit" a str that is   *)
(* not (chars holds its characters), "idx" an int.                         *)
(***************************************************************************)
NoExclude == [kind |-> "none", tag |-> "", idx |-> 0, chars |-> <<>>]

ExTag(n) == [kind |-> "tag", tag |-> n, idx |-> 0, chars |-> <<>>]

ExIdx(i) == [kind |-> "idx", tag |-> "", idx |-> i, chars |-> <<>>]

ExLit(s) == [kind |-> "lit", tag |-> "", idx |-> 0, chars |-> s]

(***************************************************************************)
(* CharsetCatalog: char_excluder's table, in the order of the source.      *)
(***************************************************************************)
\* ascii_lowercase.index("f")
char_f == CHOOSE i \in 0..(Len(ascii_lowercase) - 1) : ascii_lowercase[i + 1] = "f"

all_chars_chart == <<
    [name |-> "punct", chars |-> punctuation],
    [name |-> "ascii", chars |-> ascii_letters],
    [name |-> "ascii_lower", chars |-> ascii_lowercase],
    [name |-> "ascii_upper", chars |-> ascii_uppercase],
    [name |-> "ascii_punct", chars |-> ascii_letters \o punctuation],
    [name |-> "ascii_lower_punct", chars |-> ascii_lowercase \o punctuation],
    [name |-> "ascii_upper_punct", chars |-> ascii_uppercase \o punctuation],
    [name |-> "digits", chars |-> digits],
    [name |-> "digits_ascii", chars |-> digits \o ascii_letters],
    [name |-> "digits_punct", chars |-> digits \o punctuation],
    [name |-> "digits_ascii_lower", chars |-> digits \o ascii_lowercase],
    [name |-> "digits_ascii_upper", chars |-> digits \o ascii_uppercase],
    [name |-> "digits_ascii_lower_punct", chars |-> digits \o ascii_lowercase \o punctuation],
    [name |-> "digits_ascii_upper_punct", chars |-> digits \o ascii_uppercase \o punctuation],
    [name |-> "hexdigits", chars |-> hexdigits],
    [name |-> "hex_punct", chars |-> hexdigits \o punctuation],
    [name |-> "hex_ascii", chars |-> hexdigits \o ascii_letters],
    [name |-> "hex_ascii_lower", chars |-> hexdigits \o ascii_lowercase],
    [name |-> "hex_ascii_upper", chars |-> hexdigits \o ascii_uppercase],
    [name |-> "hex_ascii_lower_punct", chars |-> hexdigits \o ascii_lowercase \o punctuation],
    [name |-> "hex_ascii_upper_punct", chars |-> hexdigits \o ascii_uppercase \o punctuation],
    [name |-> "octdigits", chars |-> octdigits],
    [name |-> "oct_punct", chars |-> octdigits \o punctuation],
    [name |-> "oct_ascii", chars |-> octdigits \o ascii_letters],
    [name |-> "oct_ascii_lower", chars |-> octdigits \o ascii_lowercase],
    [name |-> "oct_ascii_upper", chars |-> octdigits \o ascii_uppercase],
    [name |-> "oct_ascii_punct", chars |-> octdigits \o ascii_letters \o punctuation],
    [name |-> "oct_ascii_lower_punct", chars |-> octdigits \o ascii_lowercase \o punctuation],
    [name |-> "oct_ascii_upper_punct", chars |-> octdigits \o ascii_uppercase \o punctuation],
    [name |-> "rfc_4122", chars |-> SubSeq(ascii_lowercase, 1, char_f) \o ascii_uppercase \o punctuation],
    [name |-> "non_rfc_4122", chars |-> SubSeq(ascii_lowercase, char_f + 1, Len(ascii_lowercase)) \o ascii_uppercase \o punctuation] >>

\* the names of the chart, all_chars.keys()
ChartNames == {all_chars_chart[i].name : i \in DOMAIN all_chars_chart}

\* idx_chars = {idx: v for idx, v in enumerate(all_chars.values(), start=1)}
idx_chars(i) == all_chars_chart[i].chars

\* a mutant of ChartGetIdx: the index is taken 0-based
ChartGetMutOffByOne(i) == IF (i + 1) \in DOMAIN all_chars_chart
                          THEN [found |-> TRUE, chars |-> idx_chars(i + 1)]
                          ELSE [found |-> FALSE, chars |-> <<>>]

\* all_chars.get(key) for a str key, idx_chars.get(key) for an int key:
\* [found, chars]; found = FALSE is the None the source returns.
ChartGetIdx(i) == IF i \in DOMAIN all_chars_chart
                  THEN [found |-> TRUE, chars |-> idx_chars(i)]
                  ELSE [found |-> FALSE, chars |-> <<>>]

ChartGetName(n) == IF n \in ChartNames
                   THEN [found |-> TRUE,
                         chars |-> all_chars_chart[CHOOSE i \in DOMAIN all_chars_chart :
                                                      all_chars_chart[i].name = n].chars]
                   ELSE [found |-> FALSE, chars |-> <<>>]

\* char_excluder(key): the character set of a chart name or of a 1-based
\* index; an index outside 1..len(all_chars) raises, an unknown str is None.
char_excluder(key) ==
    LET len_chars == Len(all_chars_chart)
    IN  IF key.kind = "idx"
        THEN IF ~(1 <= key.idx /\ key.idx <= len_chars)
             THEN Raise("KeyException")
             ELSE Ok(ChartGetIdx(key.idx))
        ELSE IF key.kind = "tag"
             THEN Ok(ChartGetName(key.tag))
             ELSE Ok([found |-> FALSE, chars |-> <<>>])

(***************************************************************************)
(* CharsetFilter                                                           *)
(***************************************************************************)
RECURSIVE LStrip(_, _)
LStrip(s, cs) == IF s # <<>> /\ Head(s) \in cs THEN LStrip(Tail(s), cs) ELSE s

RECURSIVE RStrip(_, _)
RStrip(s, cs) == IF s # <<>> /\ s[Len(s)] \in cs
                 THEN RStrip(SubSeq(s, 1, Len(s) - 1), cs) ELSE s

\* str.strip(chars)
Strip(s, cs) == RStrip(LStrip(s, cs), cs)

\* _filter_chars(chars, include_chars=..., exclude_chars=...) for a str
\* exclude_chars (every call of the source passes one).
_filter_chars(chars, include_chars, exclude_chars) ==
    IF exclude_chars = _ALL_CHARS
    THEN Raise("KeyException")
    ELSE LET single_space == " "
             ws == IF include_chars # <<>>
                   THEN Strip(whitespace,
                              IF single_space \in CharSet(include_chars)
                              THEN {single_space} ELSE {})
                   ELSE whitespace
             ex == IF include_chars # <<>>
                   THEN CharSet(exclude_chars) \ CharSet(include_chars)
                   ELSE CharSet(exclude_chars)
         IN  Ok(Translate(chars, CharSet(ws) \cup ex))

(***************************************************************************)
(* KeyAssembler: length check, scaling policy, cyclic buffer, sampling.    *)
(***************************************************************************)
\* _length_checker(length): zero and lengths from _MAX_CAPACITY on raise;
\* a negative integer passes.
_length_checker(length) ==
    IF length = 0
    THEN Raise("KeyException")
    ELSE IF length >= _MAX_CAPACITY
         THEN Raise("KeyException")
         ELSE Ok(length)

\* a mutant of _sig_larger: the threshold field ignores the two values
SigLargerMutThresholdOnly(a, b, t) ==
    LET threshold == IF t # 0 THEN t ELSE Abs(_MAX_CAPACITY - _MIN_CAPACITY)
    IN  [status |-> Abs(a - b) <= threshold, threshold |-> threshold]

\* _sig_larger(a, b, threshold=t): math.log1p is increasing, so the
\* comparison of the two logarithms is the comparison of their arguments.
_sig_larger(a, b, t) ==
    LET threshold == IF t # 0 THEN t ELSE Abs(_MAX_CAPACITY - _MIN_CAPACITY)
        abs_diff == Abs(a - b)
    IN  [status |-> abs_diff <= threshold,
         threshold |-> Max(Max(a, b), threshold)]

\* _check_scale(length), after its _length_checker call has passed
_check_scale(length) ==
    LET large_length == _sig_larger(length, Abs(_MAX_CAPACITY - length), 0)
        rng_length == _sig_larger(length, _MIN_CAPACITY, _ALL_CHARS_LEN)
    IN  IF length >= _MIN_CAPACITY
        THEN IF large_length.status
             THEN length * 2
             ELSE IF rng_length.status
                  THEN length
                  ELSE large_length.threshold
        ELSE rng_length.threshold

\* slicer(cycle(_ALL_CHARS)): the first n characters of the endless cycle
slicer(n) == [i \in 1..n |-> _ALL_CHARS[((i - 1) % _ALL_CHARS_LEN) + 1]]

\* _randomify(population=p, k=k) = SystemRandom().sample(p, k): k positions
\* of p drawn without replacement, in any order: every sequence of length k
\* that uses no character more often than p holds it.  k < 0 or k > len(p)
\* is sample's ValueError (the callers below test for it).
_randomify(p, k) ==
    {s \in [1..k -> CharSet(p)] : \A c \in CharSet(p) : Count(s, c) <= Count(p, c)}

\* tuple(S) for a set S: its elements in some order
RECURSIVE TupleOf(_)
TupleOf(S) == IF S = {} THEN <<>>
              ELSE LET x == CHOOSE y \in S : TRUE IN <<x>> \o TupleOf(S \ {x})

\* unique_test(key, test_only=True)
unique_test(key) == Cardinality(CharSet(key)) = Len(key)

\* bool(exclude_chars): "" and the integer 0 are false
Truthy(exclude_chars) ==
    \/ exclude_chars.kind \in {"tag", "lit"}
    \/ exclude_chars.kind = "idx" /\ exclude_chars.idx # 0

\* The outcome of one _generate_key call: the key returned or the exception
\* raised, and the instance's _unique_chars afterwards.
GenOk(key, uc) == [status |-> "ok", key |-> key, unique_chars |-> uc]

GenRaise(e, uc) == [status |-> e, key |-> <<>>, unique_chars |-> uc]

\* a mutant of FilteredChars: an exclusion that is no chart entry is ignored
FilteredCharsMutIgnoreLiteral(all_chars, exclude_chars, include_all) ==
    _filter_chars(all_chars, <<>>, punctuation)

\* _generate_key, lines 1452-1475: the filtered character set
FilteredChars(all_chars, exclude_chars, include_all) ==
    IF include_all
    THEN Ok(all_chars)
    ELSE IF Truthy(exclude_chars)
         THEN LET exclude_chars_type == char_excluder(exclude_chars)
              IN  IF ~exclude_chars_type.ok
                  THEN exclude_chars_type
                  ELSE IF exclude_chars_type.val.found
                       THEN _filter_chars(all_chars, <<>>, exclude_chars_type.val.chars)
                       ELSE _filter_chars(all_chars, <<>>, exclude_chars.chars)
         ELSE _filter_chars(all_chars, <<>>, punctuation)

\* _generate_key, lines 1481-1552: the unique_chars block, for one drawn
\* candidate generated_key.  Status "regenerate" stands for lines 1540-1544,
\* the second draw, which _generate_key below carries out.
UniqueChars(cfg, unique_chars, filtered_chars, generated_key) ==
    IF ~unique_chars
    THEN GenOk(generated_key, unique_chars)
    ELSE LET key_length == cfg.key_length
             is_unique == unique_test(generated_key)
             too_large == key_length > Cardinality(CharSet(filtered_chars))
             disabled ==
                 /\ cfg.bypass_unique /\ too_large
                 /\ \/ /\ cfg.exclude_chars.kind = "tag"
                       /\ \E i \in DOMAIN _UNIQUE_DISABLED :
                              _UNIQUE_DISABLED[i].name = cfg.exclude_chars.tag
                    \/ \E i \in DOMAIN _UNIQUE_DISABLED :
                              _UNIQUE_DISABLED[i].size = Len(generated_key)
         IN  IF is_unique
             THEN GenOk(generated_key, unique_chars)
             ELSE IF disabled
                  THEN GenOk(generated_key, FALSE)
                  ELSE IF ~cfg.bypass_unique
                       THEN IF too_large
                            THEN GenRaise("KeyException", unique_chars)
                            ELSE GenRaise("regenerate", unique_chars)
                       ELSE GenOk(generated_key, unique_chars)

\* _generate_key(): every outcome the random draws allow.  Word mode
\* (use_words) reads a data file that is no part of the sources and is
\* left out.
_generate_key(cfg, unique_chars) ==
    LET checked == _length_checker(cfg.key_length)
    IN  IF ~checked.ok
        THEN {GenRaise(checked.err, unique_chars)}
        ELSE LET key_length == checked.val
                 all_chars == slicer(_check_scale(key_length))
                 filtered == FilteredChars(all_chars, cfg.exclude_chars, cfg.include_all)
             IN  IF ~filtered.ok
                 THEN {GenRaise(filtered.err, unique_chars)}
                 ELSE LET filtered_chars == filtered.val
                          k == Min(key_length, Len(filtered_chars))
                          gen_set == CharSet(all_chars) \cap CharSet(filtered_chars)
                          regenerated == _randomify(TupleOf(gen_set),
                                                    Min(key_length, Len(all_chars)))
                          drawn == {UniqueChars(cfg, unique_chars, filtered_chars,
                                                generated_key) :
                                       generated_key \in _randomify(filtered_chars, k)}
                      IN  IF k < 0
                          THEN {GenRaise("ValueError", unique_chars)}
                          ELSE UNION {
                                 IF o.status = "regenerate"
                                 THEN {GenOk(Prefix(g, key_length), o.unique_chars) :
                                          g \in regenerated}
                                 ELSE {[o EXCEPT !.key = Prefix(o.key, key_length)]} :
                                 o \in drawn}

(***************************************************************************)
(* TextWrapper                                                             *)
(***************************************************************************)
\* a mutant of _check_sep: the length of the separator is not looked at
CheckSepMutAnyLength(sep_val, bypass_length) ==
    IF sep_val = <<>>
    THEN Ok(<<>>)
    ELSE _filter_chars(sep_val, <<" ">>, <<>>)

\* _check_sep(sep_val, bypass_length): unless bypass_length (word mode) the
\* separator has at most one character; whitespace other than the single
\* space is filtered out of it
_check_sep(sep_val, bypass_length) ==
    IF sep_val = <<>>
    THEN Ok(<<>>)
    ELSE IF ~bypass_length /\ ~(Len(sep_val) <= 1)
         THEN Raise("KeyException")
         ELSE _filter_chars(sep_val, <<" ">>, <<>>)

\* a mutant of _punctuation_checker: nothing is detected
PunctuationCheckerMutNever(key) == FALSE

\* _punctuation_checker(key) = bool(_compiler(key, punctuation)): a search,
\* in the escaped punctuation, for the alternation of key's characters; the
\* empty alternation of an empty key matches too.
_punctuation_checker(key) ==
    \/ key = <<>>
    \/ \E i \in DOMAIN key : key[i] \in CharSet(punctuation)

\* textwrap.wrap(text, width) for a text without whitespace or hyphens:
\* runs of width characters, the last one shorter
RECURSIVE textwrap_wrap(_, _)
textwrap_wrap(text, width) ==
    IF text = <<>>
    THEN <<>>
    ELSE IF Len(text) <= width
         THEN <<text>>
         ELSE <<SubSeq(text, 1, width)>>
              \o textwrap_wrap(SubSeq(text, width + 1, Len(text)), width)

\* sep.join(parts)
RECURSIVE Join(_, _)
Join(sep, parts) ==
    IF parts = <<>>
    THEN <<>>
    ELSE IF Len(parts) = 1
         THEN parts[1]
         ELSE parts[1] \o sep \o Join(sep, Tail(parts))

\* bool(self._width): None, 0 and an empty iterable are false
WidthTruthy(w) ==
    \/ w.kind = "int" /\ w.n # 0
    \/ w.kind = "iter" /\ w.offsets # {}

\* a mutant of InsertAt: the separator takes the place of the character
InsertAtMutReplace(text, sep, width, idx) ==
    [i \in 1..Len(text) |-> IF (i - 1) \in width /\ sep # <<>> THEN sep[1] ELSE text[i]]

\* lines 1258-1267: the separator before the character at each index in
\* width (idx is 0-based)
RECURSIVE InsertAt(_, _, _, _)
InsertAt(text, sep, width, idx) ==
    IF idx >= Len(text)
    THEN <<>>
    ELSE (IF idx \in width THEN sep \o <<text[idx + 1]>> ELSE <<text[idx + 1]>>)
         \o InsertAt(text, sep, width, idx + 1)

\* _wrap_text(text) outside word mode
_wrap_text(text, sep, w, include_all) ==
    LET checked == _filter_chars(text, <<>>, sep)
        len_text == Len(text)
    IN  IF ~checked.ok
        THEN checked
        ELSE IF ~include_all /\ _punctuation_checker(checked.val)
        THEN Raise("KeyException")
        ELSE IF ~WidthTruthy(w) \/ w.kind = "int"
        THEN LET width == IF ~WidthTruthy(w) THEN 4 ELSE w.n
                 adjust == len_text # 1 /\ width >= len_text
                 width2 == IF adjust /\ Abs(len_text - width) <= 1
                           THEN width - 1 ELSE width
             IN  IF adjust /\ ~(Abs(len_text - width) <= 1)
                 THEN Raise("KeyException")
                 ELSE IF width2 <= 0
                      THEN Raise("ValueError")
                      ELSE Ok(Join(sep, textwrap_wrap(text, width2)))
        ELSE IF \E x \in w.offsets : ~(x >= 0)
        THEN Raise("KeyException")
        ELSE IF (CHOOSE x \in w.offsets : \A y \in w.offsets : y <= x) > len_text
        THEN Raise("KeyException")
        ELSE Ok(InsertAt(text, sep, w.offsets, 0))

(***************************************************************************)
(* Encoder                                                                 *)
(***************************************************************************)
\* ord(c) for the characters of the model
Ord(c) ==
    CASE c = "a" -> 97 [] c = "f" -> 102 [] c = "g" -> 103
      [] c = "A" -> 65 [] c = "G" -> 71
      [] c = "0" -> 48 [] c = "8" -> 56
      [] c = "#" -> 35 [] c = "+" -> 43 [] c = "-" -> 45
      [] c = " " -> 32 [] c = "\t" -> 9

\* str.encode(): the UTF-8 bytes of an ASCII text
StrEncode(key) == [i \in DOMAIN key |-> Ord(key[i])]

\* the byte of the URL-safe base64 alphabet for a 6-bit value
B64Byte(n) ==
    IF n < 26 THEN 65 + n
    ELSE IF n < 52 THEN 97 + (n - 26)
    ELSE IF n < 62 THEN 48 + (n - 52)
    ELSE IF n = 62 THEN 45
    ELSE 95

\* base64.urlsafe_b64encode(b): three bytes to four characters, the last
\* group padded with "="
RECURSIVE urlsafe_b64encode(_)
urlsafe_b64encode(b) ==
    IF b = <<>>
    THEN <<>>
    ELSE IF Len(b) = 1
    THEN <<B64Byte(b[1] \div 4), B64Byte((b[1] % 4) * 16), 61, 61>>
    ELSE IF Len(b) = 2
    THEN <<B64Byte(b[1] \div 4),
           B64Byte((b[1] % 4) * 16 + b[2] \div 16),
           B64Byte((b[2] % 16) * 4), 61>>
    ELSE <<B64Byte(b[1] \div 4),
           B64Byte((b[1] % 4) * 16 + b[2] \div 16),
           B64Byte((b[2] % 16) * 4 + b[3] \div 64),
           B64Byte(b[3] % 64)>>
         \o urlsafe_b64encode(SubSeq(b, 4, Len(b)))

\* a mutant of Chr: every byte reads as "0"
ChrMutAllZero(n) == "0"

\* chr(n) for the bytes an encoded key holds: digits, letters, the marks of
\* the model's alphabet and separators, and base64's "-", "_" and "="
Chr(n) ==
    IF n \in 48..57
    THEN <<"0", "1", "2", "3", "4", "5", "6", "7", "8", "9">>[n - 47]
    ELSE IF n \in 65..90
    THEN <<"A", "B", "C", "D", "E", "F", "G", "H", "I", "J", "K", "L", "M",
           "N", "O", "P", "Q", "R", "S", "T", "U", "V", "W", "X", "Y", "Z">>[n - 64]
    ELSE IF n \in 97..122
    THEN <<"a", "b", "c", "d", "e", "f", "g", "h", "i", "j", "k", "l", "m",
           "n", "o", "p", "q", "r", "s", "t", "u", "v", "w", "x", "y", "z">>[n - 96]
    ELSE CASE n = 32 -> " " [] n = 35 -> "#" [] n = 43 -> "+"
           [] n = 45 -> "-" [] n = 61 -> "=" [] n = 95 -> "_"

(***************************************************************************)
(* Values and the state of one generator instance.                         *)
(***************************************************************************)
None == [t |-> "None", v |-> <<>>]

Str(s) == [t |-> "str", v |-> s]

Bytes(b) == [t |-> "bytes", v |-> b]

Keys(fields) == [t |-> "Keys", v |-> fields]

\* a mutant of encode_key: the bytes of the key are never base64 encoded
EncodeKeyMutPlain(key, urlsafe_encoded) == StrEncode(key)

\* encode_key(key, urlsafe_encoded)
encode_key(key, urlsafe_encoded) ==
    LET encoded_key == StrEncode(key)
    IN  IF urlsafe_encoded THEN urlsafe_b64encode(encoded_key) ELSE encoded_key

\* str(x) as export_key writes it: a str as it is, a bytes object as its
\* literal b'...' (the bytes of a key are printable and hold no quote or
\* backslash, so the literal escapes nothing)
PyStr(x) ==
    IF x.t = "str"
    THEN x.v
    ELSE <<"b", "'">> \o [i \in DOMAIN x.v |-> Chr(x.v[i])] \o <<"'">>

\* bytes.decode() of printable ASCII bytes
BytesDecode(b) == [i \in DOMAIN b |-> Chr(b[i])]

\* the 6-bit value of a byte of the URL-safe base64 alphabet
B64Val(n) ==
    IF n \in 65..90 THEN n - 65
    ELSE IF n \in 97..122 THEN n - 71
    ELSE IF n \in 48..57 THEN n + 4
    ELSE IF n = 45 THEN 62
    ELSE 63

\* base64.urlsafe_b64decode(b) for b over the base64 alphabet: four
\* characters to three bytes, "=" padding shortening the last group; a
\* length that is no multiple of four is binascii.Error
RECURSIVE urlsafe_b64decode(_)
urlsafe_b64decode(b) ==
    IF b = <<>>
    THEN Ok(<<>>)
    ELSE IF Len(b) % 4 # 0
    THEN Raise("binascii.Error")
    ELSE LET v == [i \in 1..4 |-> IF b[i] = 61 THEN 0 ELSE B64Val(b[i])]
             three == <<v[1] * 4 + v[2] \div 16,
                        (v[2] % 16) * 16 + v[3] \div 4,
                        (v[3] % 4) * 64 + v[4]>>
             group == IF b[3] = 61 THEN SubSeq(three, 1, 1)
                      ELSE IF b[4] = 61 THEN SubSeq(three, 1, 2)
                      ELSE three
             rest == urlsafe_b64decode(SubSeq(b, 5, Len(b)))
         IN  IF rest.ok THEN Ok(group \o rest.val) ELSE rest

\* _base64_key(key, base_type="decode"): any exception of the decoder is
\* raised again as KeyException
_base64_key_decode(key) ==
    LET decoded == urlsafe_b64decode(key)
    IN  IF decoded.ok THEN decoded ELSE Raise("KeyException")

\* decode_key(key, encoding_type): encoding_type is "urlsafe", "default",
\* "" for None, or any other str; a str key has no decode() method
decode_key(key, encoding_type) ==
    IF key.t \notin {"str", "bytes"}
    THEN Raise("KeyException")
    ELSE IF encoding_type = ""
    THEN Ok(key)
    ELSE IF encoding_type = "urlsafe"
    THEN LET decoded == _base64_key_decode(IF key.t = "str" THEN StrEncode(key.v) ELSE key.v)
         IN  IF decoded.ok THEN Ok(Str(BytesDecode(decoded.val))) ELSE decoded
    ELSE IF encoding_type = "default"
    THEN IF key.t = "str" THEN Raise("AttributeError") ELSE Ok(Str(BytesDecode(key.v)))
    ELSE Raise("KeyException")

\* self._wrap_key = any((self._sep, self._width))
_wrap_key(c) == c.sep # <<>> \/ WidthTruthy(c.width)

\* self._encode_key = any((self._encoded, self._urlsafe))
_encode_key(c) == c.encoded \/ c.urlsafe

\* The outcome of evaluating the body of the `key` property: what it
\* returned or raised, self._key and self._unique_chars afterwards, and
\* whether _generate_key returned a key.
KeyOutcome(status, val, stored, uc, ran) ==
    [status |-> status, val |-> val, stored |-> stored, unique_chars |-> uc, ran |-> ran]

\* a mutant of AfterGenerate: the raw key goes to the encoder unwrapped
AfterGenerateMutSkipWrap(c, g, uc) ==
    IF _encode_key(c)
    THEN KeyOutcome("ok", Bytes(encode_key(g, c.urlsafe)), Bytes(encode_key(g, c.urlsafe)), uc, TRUE)
    ELSE KeyOutcome("ok", Str(g), Str(g), uc, TRUE)

\* key, lines 1584-1590, once _generate_key has returned g: self._key is
\* assigned before each later stage, so a stage that raises leaves the
\* result of the stage before in self._key
AfterGenerate(c, g, uc) ==
    LET wrapped == IF _wrap_key(c)
                   THEN _wrap_text(g, c.sep, c.width, c.include_all)
                   ELSE Ok(g)
    IN  IF ~wrapped.ok
        THEN KeyOutcome(wrapped.err, None, Str(g), uc, TRUE)
        ELSE IF _encode_key(c)
             THEN LET e == Bytes(encode_key(wrapped.val, c.urlsafe))
                  IN  KeyOutcome("ok", e, e, uc, TRUE)
             ELSE KeyOutcome("ok", Str(wrapped.val), Str(wrapped.val), uc, TRUE)

\* a mutant of key_body: the pipeline runs again although self._key is set
KeyBodyMutRerun(c, uc, stored) ==
    {IF o.status # "ok"
     THEN KeyOutcome(o.status, None, stored, o.unique_chars, FALSE)
     ELSE AfterGenerate(c, o.key, o.unique_chars) : o \in _generate_key(c, uc)}

\* the body of the `key` property (lines 1583-1590) on an instance whose
\* self._key is `stored`
key_body(c, uc, stored) ==
    IF stored # None
    THEN {KeyOutcome("ok", stored, stored, uc, FALSE)}
    ELSE {IF o.status # "ok"
          THEN KeyOutcome(o.status, None, None, o.unique_chars, FALSE)
          ELSE AfterGenerate(c, o.key, o.unique_chars) : o \in _generate_key(c, uc)}

VARIABLES
    cfg,            \* the constructor's arguments, as __init__ stored them
    unique_chars,   \* self._unique_chars (the pipeline may clear it)
    _key,           \* self._key
    key_cached,     \* the value cached_property stored for `key`, or None
    _keys,          \* self._keys: None or the Keys tuple, a sequence of fields
    index,          \* self.__index
    nexts,          \* how many calls of __next__ have returned on this instance
    futures,        \* the futures of a running `keys` access
    collected,      \* the results the `keys` access has drawn from as_completed
    phase,          \* "idle", or the call that waits in as_completed; "new" before
                    \* __init__ has run and "failed" when it raised
    ret,            \* what the last call returned or raised
    runs,           \* how often _generate_key has returned a key on this instance
    logger_disabled, \* logger.disabled of the module's logger
    logged,         \* FilterLog.logged of the stream handler's filter
    emitted,        \* the messages the stream handler has written, in order
    in_filter,      \* per thread: the log call it is in and how far it got
    verbose_arg,    \* per instance: the verbose argument it was constructed with
    files,          \* the names of the files in the working directory
    filename_cache, \* the result functools.cache holds for _get_filename(), or NoFile
    written         \* the last open(fp, "w") of export_key: its path, and whether
                    \* a file was there before

vars == <<cfg, unique_chars, _key, key_cached, _keys, index, nexts, futures, collected,
          phase, ret, runs, logger_disabled, logged, emitted, in_filter, verbose_arg,
          files, filename_cache, written>>

NoRet == [op |-> "none", status |-> "none", val |-> None]

\* the module's logger and its handler's filter
logvars == <<logger_disabled, logged, emitted, in_filter, verbose_arg>>

\* the threads that log: the pool threads of one multi-key generation
Threads == 1..MaxKeys

\* two generator instances, A and B
Instances == {"A", "B"}

\* a thread that is in no log call
NotLogging == [inst |-> "", msg |-> "", stage |-> "idle"]

\* lines 43-54, the module after import: the logger is enabled, the filter
\* of the stream handler has seen no message, nothing has been written
LogImported ==
    /\ logger_disabled = FALSE
    /\ logged = {}
    /\ emitted = <<>>
    /\ in_filter = [t \in Threads |-> NotLogging]
    /\ verbose_arg = [i \in Instances |-> "unset"]

\* the working directory and the key file of the instance
fsvars == <<files, filename_cache, written>>

\* a key file in the working directory: the stem the instance asked for and
\* the trailing ID make_it_unique appended to it ("" when it appended none)
KeyFile(fp_name, trail_id) == [stem |-> fp_name, trail |-> trail_id]

\* no key file
NoFile == KeyFile("", "")

\* no export_key call has opened a file
NoWrite == [path |-> NoFile, existed |-> FALSE]

\* an instance that has exported nothing, in a working directory without
\* key files
NoFiles ==
    /\ files = {}
    /\ filename_cache = NoFile
    /\ written = NoWrite

Config(key_length, exclude_chars, include_all, bypass_unique, encoded, urlsafe, num_of_keys, sep, width) ==
    [key_length |-> key_length, exclude_chars |-> exclude_chars,
     include_all |-> include_all, bypass_unique |-> bypass_unique,
     encoded |-> encoded, urlsafe |-> urlsafe, num_of_keys |-> num_of_keys,
     sep |-> sep, width |-> width]

\* sep_width: None, an int, or an iterable of ints
NoWidth == [kind |-> "none", n |-> 0, offsets |-> {}]

WidthInt(n) == [kind |-> "int", n |-> n, offsets |-> {}]

WidthIter(S) == [kind |-> "iter", n |-> 0, offsets |-> S]

\* the state __init__ leaves (lines 377-397), for arguments it accepts
InitInstance(c, uc) ==
    /\ cfg = c
    /\ unique_chars = uc
    /\ _key = None
    /\ key_cached = None
    /\ _keys = None
    /\ index = 0
    /\ nexts = 0
    /\ futures = <<>>
    /\ collected = <<>>
    /\ phase = "idle"
    /\ ret = NoRet
    /\ runs = 0
    /\ LogImported
    /\ NoFiles

(***************************************************************************)
(* SpecGen: _generate_key over the whole exclusion chart.                  *)
(***************************************************************************)
\* key lengths: the valid ones, and zero, a negative one and the maximum
KeyLengths == (-1..MaxLen) \cup {_MAX_CAPACITY}

\* the reverse of s
Reverse(s) == [i \in 1..Len(s) |-> s[Len(s) + 1 - i]]

\* exclusion specs: the default, every chart name, every index and the
\* integers next to the range on both sides, and literal strings
Exclusions ==
    {NoExclude}
    \cup {ExTag(n) : n \in ChartNames}
    \cup {ExIdx(i) : i \in -1..(Len(all_chars_chart) + 1)}
    \cup {ExLit(_ALL_CHARS), ExLit(Reverse(_ALL_CHARS)), ExLit(<<"a", "0">>)}

GenConfigs ==
    {Config(l, e, ia, bp, FALSE, FALSE, 0, <<>>, NoWidth) :
        l \in KeyLengths, e \in Exclusions, ia \in BOOLEAN, bp \in BOOLEAN}

\* _check_combos of __init__: exclude_chars and include_all_chars, encoded
\* and urlsafe_encoded are mutually exclusive
CombosOk(c) ==
    /\ ~(Truthy(c.exclude_chars) /\ c.include_all)
    /\ ~(c.encoded /\ c.urlsafe)

InitGen ==
    \E c \in GenConfigs, uc \in BOOLEAN :
        /\ CombosOk(c)
        /\ InitInstance(c, uc)

\* one call of _generate_key() on a fresh instance
CallGenerateKey ==
    /\ ret = NoRet
    /\ \E o \in _generate_key(cfg, unique_chars) :
          /\ ret' = [op |-> "_generate_key", status |-> o.status, val |-> Str(o.key)]
          /\ unique_chars' = o.unique_chars
          /\ runs' = IF o.status = "ok" THEN runs + 1 ELSE runs
    /\ UNCHANGED <<cfg, _key, key_cached, _keys, index, nexts, futures, collected, phase>>
    /\ UNCHANGED logvars
    /\ UNCHANGED fsvars

NextGen == CallGenerateKey

SpecGen == InitGen /\ [][NextGen]_vars

(***************************************************************************)
(* Spec: one generator instance and the calls made on it.                  *)
(***************************************************************************)
\* num_keys of _generate_keys when num_of_keys is not given (line 1271)
DefaultNumKeys == 5

\* the result of a call, as the caller sees it
Returned(op, val) == [op |-> op, status |-> "ok", val |-> val]

Raised(op, e) == [op |-> op, status |-> e, val |-> None]

Pending == [state |-> "pending", status |-> "", val |-> None]

Done(status, val) == [state |-> "done", status |-> status, val |-> val]

\* what an access of `key` does now: cached_property hands back the value
\* it stored, otherwise the body runs
KeyAccess ==
    IF key_cached # None
    THEN {KeyOutcome("ok", key_cached, _key, unique_chars, FALSE)}
    ELSE key_body(cfg, unique_chars, _key)

\* the effect of the access on the instance; cached_property stores the
\* value only when the body returned
ApplyKey(o) ==
    /\ _key' = o.stored
    /\ unique_chars' = o.unique_chars
    /\ key_cached' = IF o.status = "ok" THEN o.val ELSE key_cached
    /\ runs' = IF o.ran THEN runs + 1 ELSE runs

\* unpack(x): the fields of a Keys tuple, anything else as it is; and the
\* items x[0], x[1], ... the result offers to indexing
Items(x) ==
    IF x.t = "Keys"
    THEN [i \in DOMAIN x.v |-> x.v[i].val]
    ELSE IF x.t = "str"
         THEN [i \in DOMAIN x.v |-> Str(<<x.v[i]>>)]
         ELSE [i \in DOMAIN x.v |-> [t |-> "int", v |-> <<x.v[i]>>]]

\* a mutant of NextOn: the key is handed out and __index stays
NextOnMutNoAdvance(x) ==
    IF index < Len(Items(x))
    THEN /\ ret' = Returned("next", Items(x)[index + 1])
         /\ index' = index
         /\ nexts' = nexts + 1
    ELSE /\ ret' = Raised("next", "StopIteration")
         /\ index' = index /\ nexts' = nexts

\* __next__, lines 451-460, on the value __class_keys() returned
NextOn(x) ==
    IF index < Len(Items(x))
    THEN /\ ret' = Returned("next", Items(x)[index + 1])
         /\ index' = index + 1
         /\ nexts' = nexts + 1
    ELSE /\ ret' = Raised("next", "StopIteration")
         /\ index' = index /\ nexts' = nexts

\* what the call `op` does with the Keys tuple it asked for
Continue(op, ks) ==
    IF op = "next"
    THEN NextOn(ks)
    ELSE /\ ret' = Returned(op, ks)
         /\ index' = index /\ nexts' = nexts

\* _generate_keys, lines 1270-1298, up to the wait in as_completed: the
\* number of keys is checked and every run is submitted
StartKeys(op) ==
    LET num_keys == IF cfg.num_of_keys = 0
                    THEN Ok(DefaultNumKeys)
                    ELSE _length_checker(cfg.num_of_keys)
    IN  IF ~num_keys.ok
        THEN /\ ret' = Raised(op, num_keys.err)
             /\ UNCHANGED <<_keys, index, nexts, futures, collected, phase>>
        ELSE IF num_keys.val <= 0
             THEN /\ _keys' = Keys(<<>>)
                  /\ Continue(op, Keys(<<>>))
                  /\ UNCHANGED <<futures, collected, phase>>
             ELSE /\ futures' = [i \in 1..num_keys.val |-> Pending]
                  /\ collected' = <<>>
                  /\ phase' = op
                  /\ UNCHANGED <<_keys, index, nexts, ret>>

\* the `keys` property
AccessKeys ==
    /\ phase = "idle"
    /\ IF _keys # None
       THEN /\ ret' = Returned("keys", _keys)
            /\ UNCHANGED <<_keys, index, nexts, futures, collected, phase>>
       ELSE StartKeys("keys")
    /\ UNCHANGED <<cfg, unique_chars, _key, key_cached, runs>>
    /\ UNCHANGED logvars
    /\ UNCHANGED fsvars

\* the `key` property
AccessKey ==
    /\ phase = "idle"
    /\ \E o \in KeyAccess :
          /\ ApplyKey(o)
          /\ ret' = IF o.status = "ok" THEN Returned("key", o.val) ELSE Raised("key", o.status)
    /\ UNCHANGED <<cfg, _keys, index, nexts, futures, collected, phase>>
    /\ UNCHANGED logvars
    /\ UNCHANGED fsvars

\* export_key(): str(self.key) is written to the key file; ret.val is the
\* text written.  The choice of the file's name (_get_filename) is left out
\* here; ExportKeyFile is the call with the key file.
ExportKey ==
    /\ phase = "idle"
    /\ \E o \in KeyAccess :
          /\ ApplyKey(o)
          /\ ret' = IF o.status = "ok"
                    THEN Returned("export_key", Str(PyStr(o.val)))
                    ELSE Raised("export_key", o.status)
    /\ UNCHANGED <<cfg, _keys, index, nexts, futures, collected, phase>>
    /\ UNCHANGED logvars
    /\ UNCHANGED fsvars

\* __next__ on an instance without num_of_keys: __class_keys() is `key`
NextKey ==
    /\ phase = "idle"
    /\ cfg.num_of_keys = 0
    /\ \E o \in KeyAccess :
          /\ ApplyKey(o)
          /\ IF o.status = "ok"
             THEN NextOn(o.val)
             ELSE ret' = Raised("next", o.status) /\ index' = index /\ nexts' = nexts
    /\ UNCHANGED <<cfg, _keys, futures, collected, phase>>
    /\ UNCHANGED logvars
    /\ UNCHANGED fsvars

\* __next__ on an instance with num_of_keys: __class_keys() is `keys`
NextKeys ==
    /\ phase = "idle"
    /\ cfg.num_of_keys # 0
    /\ IF _keys # None
       THEN NextOn(_keys) /\ UNCHANGED <<_keys, futures, collected, phase>>
       ELSE StartKeys("next")
    /\ UNCHANGED <<cfg, unique_chars, _key, key_cached, runs>>
    /\ UNCHANGED logvars
    /\ UNCHANGED fsvars

\* key_generator in a pool thread (lines 1276-1293): a new instance with
\* this instance's arguments evaluates its `key`
WorkerRun(i) ==
    /\ phase # "idle"
    /\ futures[i].state = "pending"
    /\ \E o \in key_body(cfg, unique_chars, None) :
          futures' = [futures EXCEPT ![i] = Done(o.status, o.val)]
    /\ UNCHANGED <<cfg, unique_chars, _key, key_cached, _keys, index, nexts, collected, phase,
                   ret, runs>>
    /\ UNCHANGED logvars
    /\ UNCHANGED fsvars

\* a mutant of FieldsOf: every field holds the result drawn first
FieldsOfMutFirstOnly(order, fs) ==
    [j \in DOMAIN order |-> [worker |-> order[1], val |-> fs[order[1]].val]]

\* self._keytuple(*results): field key_j holds the j-th result drawn.  The
\* record of a field also notes which submitted run the result came from
\* (worker), which the program does not store.
FieldsOf(order, fs) ==
    [j \in DOMAIN order |-> [worker |-> order[j], val |-> fs[order[j]].val]]

\* as_completed hands over a finished future and k.result() is drawn from
\* it (line 1298); after the last one the Keys tuple is built (line 1301)
Collect(i) ==
    /\ phase # "idle"
    /\ futures[i].state = "done"
    /\ \A j \in DOMAIN collected : collected[j] # i
    /\ IF futures[i].status # "ok"
       THEN /\ ret' = Raised(phase, futures[i].status)
            /\ futures' = <<>>
            /\ collected' = <<>>
            /\ phase' = "idle"
            /\ UNCHANGED <<_keys, index, nexts>>
       ELSE IF Len(collected) + 1 < Len(futures)
            THEN /\ collected' = Append(collected, i)
                 /\ UNCHANGED <<_keys, index, nexts, futures, phase, ret>>
            ELSE LET ks == Keys(FieldsOf(Append(collected, i), futures))
                 IN  /\ _keys' = ks
                     /\ Continue(phase, ks)
                     /\ futures' = <<>>
                     /\ collected' = <<>>
                     /\ phase' = "idle"
    /\ UNCHANGED <<cfg, unique_chars, _key, key_cached, runs>>
    /\ UNCHANGED logvars
    /\ UNCHANGED fsvars

\* The arguments of the instances of Spec.  A bundle instance draws keys of
\* two digits; an instance without num_of_keys (whose bundle has
\* DefaultNumKeys fields) has the one-character alphabet.
LifeWraps == {<<<<>>, NoWidth>>, <<<<"-">>, NoWidth>>, <<<<"-">>, WidthInt(1)>>}

BundleConfigs ==
    {Config(2, ExTag("ascii_punct"), FALSE, FALSE, en, us, n, _check_sep(sw[1], FALSE).val, sw[2]) :
        en \in BOOLEAN, us \in BOOLEAN, n \in 1..MaxKeys, sw \in LifeWraps}

SingleConfigs ==
    {Config(1, ExTag("oct_ascii_punct"), FALSE, FALSE, en, us, 0, _check_sep(sw[1], FALSE).val, sw[2]) :
        en \in BOOLEAN, us \in BOOLEAN, sw \in LifeWraps}

LifeConfigs == BundleConfigs \cup SingleConfigs

Init ==
    \E c \in LifeConfigs, uc \in BOOLEAN :
        /\ CombosOk(c)
        /\ InitInstance(c, uc)

Next ==
    \/ AccessKey
    \/ AccessKeys
    \/ ExportKey
    \/ NextKey
    \/ NextKeys
    \/ \E i \in DOMAIN futures : WorkerRun(i)
    \/ \E i \in DOMAIN futures : Collect(i)

Spec == Init /\ [][Next]_vars

(***************************************************************************)
(* SpecWrap: _wrap_text over raw keys, separators and widths.              *)
(***************************************************************************)
\* the characters of the raw keys: a letter, a digit, a punctuation mark
WrapChars == {"a", "0", "#"}

\* raw keys of up to MaxLen characters
WrapTexts == UNION {[1..n -> WrapChars] : n \in 0..MaxLen}

\* the sep argument: none, a punctuation mark no key holds, a letter, a
\* punctuation mark, the single space, a tab
WrapSeps == {<<>>, <<"-">>, <<"a">>, <<"#">>, <<" ">>, <<"\t">>}

\* the sep_width argument: none, an int, a set of offsets
WrapWidths ==
    {NoWidth}
    \cup {WidthInt(n) : n \in -1..(MaxLen + 1)}
    \cup {WidthIter(S) : S \in SUBSET (0..(MaxLen + 1))}

\* the instance at line 1586 of `key`: self._key holds the raw key that
\* _generate_key returned, and _wrap_text is about to be called on it
InitWrap ==
    \E text \in WrapTexts, s \in WrapSeps, w \in WrapWidths, ia \in BOOLEAN :
        /\ cfg = Config(Len(text), NoExclude, ia, FALSE, FALSE, FALSE, 0, _check_sep(s, FALSE).val, w)
        /\ unique_chars = FALSE
        /\ _key = Str(text)
        /\ key_cached = None
        /\ _keys = None
        /\ index = 0
        /\ nexts = 0
        /\ futures = <<>>
        /\ collected = <<>>
        /\ phase = "idle"
        /\ ret = NoRet
        /\ runs = 1
        /\ LogImported
        /\ NoFiles

\* one call of _wrap_text(text=self._key)
CallWrapText ==
    /\ ret = NoRet
    /\ LET r == _wrap_text(_key.v, cfg.sep, cfg.width, cfg.include_all)
       IN  ret' = IF r.ok
                  THEN Returned("_wrap_text", Str(r.val))
                  ELSE Raised("_wrap_text", r.err)
    /\ UNCHANGED <<cfg, unique_chars, _key, key_cached, _keys, index, nexts, futures, collected,
                   phase, runs>>
    /\ UNCHANGED logvars
    /\ UNCHANGED fsvars

NextWrap == CallWrapText

SpecWrap == InitWrap /\ [][NextWrap]_vars

(***************************************************************************)
(* Properties of _generate_key, checked under SpecGen.                     *)
(***************************************************************************)
\* a call of _generate_key has returned a key
GenReturned == ret.op = "_generate_key" /\ ret.status = "ok"

\* C1: for every valid key_length L and every exclusion for which the
\* generation succeeds, the raw key has exactly L characters.
C1_ExactLength == GenReturned => Len(ret.val.v) = cfg.key_length

\* C1, the failing case: a key shorter than the valid key_length asked for
C1_ShortKey ==
    /\ GenReturned
    /\ cfg.key_length \in 1..MaxLen
    /\ ret.val.v # <<>>
    /\ Len(ret.val.v) < cfg.key_length

\* C2: for every name of the exclusion chart, and equally for its 1-based
\* index, no character of a generated key is one of that entry's characters
\* or a whitespace character.
C2_NoExcludedChars ==
    GenReturned =>
        LET e == cfg.exclude_chars
            entries == {i \in DOMAIN all_chars_chart :
                           \/ e.kind = "tag" /\ all_chars_chart[i].name = e.tag
                           \/ e.kind = "idx" /\ i = e.idx}
        IN  /\ \A i \in entries : CharSet(ret.val.v) \cap CharSet(all_chars_chart[i].chars) = {}
            /\ CharSet(ret.val.v) \cap CharSet(whitespace) = {}

\* C2, reached: a key of MaxLen characters, a digit among them, generated
\* under the last index of the chart
C2_KeyUnderLastIndex ==
    /\ GenReturned
    /\ cfg.exclude_chars = ExIdx(Len(all_chars_chart))
    /\ Len(ret.val.v) = MaxLen
    /\ CharSet(ret.val.v) \cap CharSet(digits) # {}

\* C3: whenever unique_chars is requested and the generation succeeds, the
\* characters of the returned key are pairwise distinct, bypass_unique_limit
\* set or not.
C3_UniqueKey ==
    [][(unique_chars /\ ret.op = "none" /\ ret'.op = "_generate_key" /\ ret'.status = "ok")
          => unique_test(ret'.val.v)]_vars

\* C3, the failing case: unique_chars is still set, the key_length is within
\* the number of distinct characters, and the key repeats a character
C3_RepeatedChar ==
    /\ GenReturned
    /\ unique_chars
    /\ cfg.bypass_unique
    /\ cfg.exclude_chars = NoExclude
    /\ Len(ret.val.v) = cfg.key_length
    /\ ~unique_test(ret.val.v)

\* C4: with unique_chars requested and bypass_unique_limit not set, a valid
\* key_length greater than the number of distinct characters of the filtered
\* alphabet makes the generation raise KeyException.
C4_TooLargeRaises ==
    [][(/\ unique_chars
        /\ ~cfg.bypass_unique
        /\ cfg.key_length \in 1..(_MAX_CAPACITY - 1)
        /\ ret.op = "none"
        /\ ret'.op = "_generate_key"
        /\ LET alphabet == FilteredChars(_ALL_CHARS, cfg.exclude_chars, cfg.include_all)
           IN  alphabet.ok => cfg.key_length > Cardinality(CharSet(alphabet.val)))
          => ret'.status = "KeyException"]_vars

\* C4, the failing case: unique_chars without the bypass, and a key that is
\* shorter than key_length is returned
C4_KeyReturned ==
    /\ GenReturned
    /\ unique_chars
    /\ ~cfg.bypass_unique
    /\ cfg.key_length \in 1..MaxLen
    /\ Len(ret.val.v) < cfg.key_length

\* C5: an exclusion that removes every character of the alphabet makes the
\* generation raise KeyException, and no generation returns an empty key.
C5_ExcludeAllRaises ==
    ret.op = "_generate_key" =>
        /\ (/\ cfg.key_length \in 1..(_MAX_CAPACITY - 1)
            /\ cfg.exclude_chars.kind = "lit"
            /\ CharSet(_ALL_CHARS) \subseteq CharSet(cfg.exclude_chars.chars))
              => ret.status = "KeyException"
        /\ ret.status = "ok" => ret.val.v # <<>>

\* C5, the failing case: every character is excluded and the empty key is
\* returned
C5_EmptyKey ==
    /\ GenReturned
    /\ ~unique_chars
    /\ CharSet(_ALL_CHARS) \subseteq CharSet(cfg.exclude_chars.chars)
    /\ ret.val.v = <<>>

(***************************************************************************)
(* Properties of one instance, checked under Spec.                         *)
(***************************************************************************)
\* the values a complete run of the pipeline can return for cfg
PipelineValues ==
    {o.val : o \in {x \in key_body(cfg, unique_chars, None) : x.status = "ok"}}

\* C6: every value that an access of `key` returns has passed every stage
\* asked for (the wrap when a separator or width is set, the encoding when
\* one is set); after a stage has raised, no access returns a key.
C6_NoPartialKey ==
    (ret.op = "key" /\ ret.status = "ok") => ret.val \in PipelineValues

\* C6, the failing case: a separator is set and `key` returns the raw key
C6_RawKeyReturned ==
    /\ ret.op = "key"
    /\ ret.status = "ok"
    /\ cfg.sep # <<>>
    /\ ret.val.t = "str"
    /\ Len(ret.val.v) = cfg.key_length

\* C7: the key is generated at most once on an instance; once `key` has
\* returned a value, every later access (`key`, next(), export_key) hands
\* back that value, and the pipeline does not run again.
C7_GeneratedOnce ==
    /\ [](runs <= 1)
    /\ []((ret.status = "ok" /\ key_cached # None) =>
            /\ ret.op = "key" => ret.val = key_cached
            /\ ret.op = "export_key" => ret.val = Str(PyStr(key_cached))
            /\ (ret.op = "next" /\ cfg.num_of_keys = 0) =>
                   /\ index \in 1..Len(key_cached.v)
                   /\ ret.val.v = <<key_cached.v[index]>>)
    /\ [][key_cached # None => (key_cached' = key_cached /\ runs' = runs)]_vars

\* C7, reached: after a next() on the key, export_key writes the encoded key
C7_ExportAfterNext ==
    /\ runs = 1
    /\ index >= 1
    /\ ret.op = "export_key"
    /\ ret.status = "ok"
    /\ key_cached.t = "bytes"

C9_SubmissionOrder ==
    (ret.op = "keys" /\ ret.status = "ok") =>
        \A j \in DOMAIN ret.val.v : ret.val.v[j].worker = j

\* C9, the failing case: key1 holds the result of the second submitted run
C9_CompletionOrder ==
    /\ ret.op = "keys"
    /\ ret.status = "ok"
    /\ Len(ret.val.v) >= 2
    /\ ret.val.v[1].worker = 2
    /\ ret.val.v[1].val # ret.val.v[2].val

(***************************************************************************)
(* Properties of _wrap_text, checked under SpecWrap.                       *)
(***************************************************************************)
\* deleting the separator from the wrapped key leaves the characters of the
\* raw key, each as often as the raw key holds it
SameChars ==
    LET stripped == Translate(ret.val.v, CharSet(cfg.sep))
    IN  \A c \in CharSet(_key.v) \cup CharSet(stripped) :
            Count(stripped, c) = Count(_key.v, c)

\* C10: for every raw key wrapped with a single-character separator, by a
\* fixed width or by offsets, deleting every occurrence of the separator
\* from the wrapped key yields the characters of the raw key.
C10_RoundTrip ==
    (ret.op = "_wrap_text" /\ ret.status = "ok" /\ cfg.sep # <<>>) => SameChars

\* C10 for a separator that is no character of the raw key
C10_RoundTripForeignSep ==
    (/\ ret.op = "_wrap_text"
     /\ ret.status = "ok"
     /\ cfg.sep # <<>>
     /\ cfg.sep[1] \notin CharSet(_key.v)) => SameChars

\* C10, reached: a key of MaxLen characters wrapped with the separator
\* before two of its offsets
C10_Wrapped ==
    /\ ret.op = "_wrap_text"
    /\ ret.status = "ok"
    /\ cfg.sep = <<"-">>
    /\ cfg.width.kind = "iter"
    /\ Len(_key.v) = MaxLen
    /\ Len(ret.val.v) = MaxLen + 2

\* a call of _wrap_text has returned the wrapped key
WrapReturned == ret.op = "_wrap_text" /\ ret.status = "ok"

\* C11: in offset mode, for every accepted set of offsets, the separator
\* stands immediately before the character at each offset and nowhere else,
\* the characters keep their order, and the result is longer than the text
\* by the number of distinct offsets.
C11_OffsetsInserted ==
    (WrapReturned /\ cfg.width.kind = "iter" /\ cfg.width.offsets # {} /\ cfg.sep # <<>>) =>
        LET text == _key.v
            out == ret.val.v
            offs == cfg.width.offsets
        IN  /\ Len(out) = Len(text) + Cardinality(offs)
            /\ \A i \in 1..Len(text) :
                   out[i + Cardinality({o \in offs : o <= i - 1})] = text[i]
            /\ \A o \in offs :
                   out[o + Cardinality({q \in offs : q <= o})] = cfg.sep[1]

\* C11, the failing case: the offset len(text) is accepted and no separator
\* is inserted for it
C11_OffsetAtEndDropped ==
    /\ WrapReturned
    /\ cfg.sep = <<"-">>
    /\ cfg.width.kind = "iter"
    /\ Len(_key.v) \in cfg.width.offsets
    /\ Len(_key.v) >= 2
    /\ Len(ret.val.v) < Len(_key.v) + Cardinality(cfg.width.offsets)

\* C12: in fixed-width mode a text of at least 2 characters is either
\* rejected with KeyException or chunked by a width below its length, so
\* that the separator is in the result at least once.
C12_FixedWidthSeparates ==
    (/\ ret.op = "_wrap_text"
     /\ cfg.width.kind \in {"none", "int"}
     /\ cfg.sep # <<>>
     /\ Len(_key.v) >= 2) =>
        \/ ret.status = "KeyException"
        \/ ret.status = "ok" /\ Len(ret.val.v) > Len(_key.v)

\* C12, the failing case: a width one above the length of the text is
\* accepted and the text comes back without a separator
C12_SingleChunk ==
    /\ WrapReturned
    /\ cfg.sep = <<"-">>
    /\ cfg.width.kind = "int"
    /\ Len(_key.v) >= 2
    /\ cfg.width.n = Len(_key.v) + 1
    /\ ret.val.v = _key.v

\* the punctuation characters that are not the separator
OtherPunctuation == CharSet(punctuation) \ CharSet(cfg.sep)

CodecChars == {"a", "G", "8", "#", "-"}

\* text keys of up to MaxLen characters
CodecTexts == UNION {[1..n -> CodecChars] : n \in 0..MaxLen}

\* an instance whose self._key holds the text key
InitCodec ==
    \E x \in CodecTexts, en \in BOOLEAN, us \in BOOLEAN :
        /\ cfg = Config(Max(Len(x), 1), NoExclude, FALSE, FALSE, en, us, 0, <<>>, NoWidth)
        /\ CombosOk(cfg)
        /\ _encode_key(cfg)
        /\ unique_chars = FALSE
        /\ _key = Str(x)
        /\ key_cached = None
        /\ _keys = None
        /\ index = 0
        /\ nexts = 0
        /\ futures = <<>>
        /\ collected = <<>>
        /\ phase = "idle"
        /\ ret = NoRet
        /\ runs = 1
        /\ LogImported
        /\ NoFiles

\* encode_key(self._key, urlsafe_encoded=self._urlsafe)
CallEncodeKey ==
    /\ ret = NoRet
    /\ ret' = Returned("encode_key", Bytes(encode_key(_key.v, cfg.urlsafe)))
    /\ UNCHANGED <<cfg, unique_chars, _key, key_cached, _keys, index, nexts, futures, collected,
                   phase, runs>>
    /\ UNCHANGED logvars
    /\ UNCHANGED fsvars

\* decode_key(encoded, encoding_type) on what encode_key returned; the
\* URL-safe decoder is given URL-safe encoded keys only
CallDecodeKey ==
    /\ ret.op = "encode_key"
    /\ \E encoding_type \in {"", "default", "urlsafe", "utf-8"} :
          /\ encoding_type = "urlsafe" => cfg.urlsafe
          /\ LET r == decode_key(ret.val, encoding_type)
             IN  ret' = IF r.ok
                        THEN Returned("decode_key " \o encoding_type, r.val)
                        ELSE Raised("decode_key " \o encoding_type, r.err)
    /\ UNCHANGED <<cfg, unique_chars, _key, key_cached, _keys, index, nexts, futures, collected,
                   phase, runs>>
    /\ UNCHANGED logvars
    /\ UNCHANGED fsvars

NextCodec == CallEncodeKey \/ CallDecodeKey

SpecCodec == InitCodec /\ [][NextCodec]_vars

\* C14: for every text key x, decode_key(encode_key(x, False), "default")
\* = x and decode_key(encode_key(x, True), "urlsafe") = x.
C14_EncodeRoundTrip ==
    /\ (ret.op = "decode_key default" /\ ~cfg.urlsafe) => ret = Returned(ret.op, _key)
    /\ (ret.op = "decode_key urlsafe" /\ cfg.urlsafe) => ret = Returned(ret.op, _key)

\* C14, reached: a key of MaxLen characters, of three kinds, has come back
\* from the URL-safe round trip
C14_UrlsafeDecoded ==
    /\ ret.op = "decode_key urlsafe"
    /\ ret.status = "ok"
    /\ cfg.urlsafe
    /\ Len(_key.v) = MaxLen
    /\ Cardinality(CharSet(_key.v)) = 3
    /\ ret.val = _key

\* C15: a key_length that is zero, negative, or not below the maximum makes
\* the generation raise KeyException and no other error; no key is returned.
C15_InvalidLengthRaises ==
    (ret.op = "_generate_key" /\ (cfg.key_length <= 0 \/ cfg.key_length >= _MAX_CAPACITY))
        => ret.status = "KeyException"

\* C15, the failing case: a negative key_length ends in ValueError
C15_NegativeLengthValueError ==
    /\ ret.op = "_generate_key"
    /\ cfg.key_length < 0
    /\ cfg.exclude_chars = NoExclude
    /\ ret.status = "ValueError"

\* C16: an integer exclude_chars outside 1..31, the indices of the chart,
\* makes the generation raise KeyException instead of producing a key.
C16_IndexOutOfRangeRaises ==
    (/\ ret.op = "_generate_key"
     /\ cfg.exclude_chars.kind = "idx"
     /\ cfg.exclude_chars.idx \notin 1..Len(all_chars_chart))
        => ret.status = "KeyException"

\* C16, the failing case: the index 0 produces a key of the default alphabet
C16_IndexZeroKey ==
    /\ GenReturned
    /\ cfg.exclude_chars = ExIdx(0)
    /\ Len(ret.val.v) = MaxLen
    /\ CharSet(ret.val.v) \cap CharSet(punctuation) = {}

\* exclude_chars is a str that is no name of the chart
LiteralExclusion == cfg.exclude_chars.kind = "lit"

Args(c, use_words, verbose) == c @@ [use_words |-> use_words, verbose |-> verbose, sep_arg |-> c.sep]

\* exclude_chars arguments: the default, a chart name, the integers 0 and 1,
\* a literal string
CtorExclusions == {NoExclude, ExTag("punct"), ExIdx(0), ExIdx(1), ExLit(<<"a", "0">>)}

\* sep arguments of zero, one, two and four characters
CtorSeps == {<<>>, <<"-">>, <<" ">>, <<"\t">>, <<"-", "-">>, <<"a", "b", "\t", "c">>}

\* the call KeyCraftsman(...) before the body of __init__ has run
InitNew ==
    \E e \in CtorExclusions, ia \in BOOLEAN, en \in BOOLEAN, us \in BOOLEAN,
       s \in CtorSeps, w \in BOOLEAN, v \in BOOLEAN :
        /\ cfg = Args(Config(2, e, ia, FALSE, en, us, 0, s, NoWidth), w, v)
        /\ unique_chars = FALSE
        /\ _key = None
        /\ key_cached = None
        /\ _keys = None
        /\ index = 0
        /\ nexts = 0
        /\ futures = <<>>
        /\ collected = <<>>
        /\ phase = "new"
        /\ ret = NoRet
        /\ runs = 0
        /\ LogImported
        /\ NoFiles

\* __init__, lines 377-421: the module's logger is switched by verbose (line
\* 377), the separator is checked when self._sep is set (line 392), the
\* mutually exclusive arguments at the end (lines 413-421).  The log record
\* of a raised KeyException is left out.
Construct ==
    /\ phase = "new"
    /\ logger_disabled' = ~cfg.verbose
    /\ LET sep == _check_sep(cfg.sep_arg, cfg.use_words)
       IN  IF ~sep.ok
           THEN /\ ret' = Raised("__init__", sep.err)
                /\ phase' = "failed"
                /\ cfg' = cfg
           ELSE IF ~CombosOk(cfg)
                THEN /\ ret' = Raised("__init__", "KeyException")
                     /\ phase' = "failed"
                     /\ cfg' = cfg
                ELSE /\ ret' = Returned("__init__", None)
                     /\ phase' = "idle"
                     /\ cfg' = [cfg EXCEPT !.sep = sep.val]
    /\ UNCHANGED <<unique_chars, _key, key_cached, _keys, index, nexts, futures, collected,
                   runs>>
    /\ UNCHANGED <<logged, emitted, in_filter, verbose_arg>>
    /\ UNCHANGED fsvars

NextInit == Construct

SpecInit == InitNew /\ [][NextInit]_vars

\* __init__ has returned or raised
Constructed == ret.op = "__init__"

\* C18: a constructor call with both exclude_chars and include_all_chars
\* given, or with both encoded and urlsafe_encoded given, raises
\* KeyException, and no key has been generated by then.
C18_ExclusiveArgsRaise ==
    (/\ Constructed
     /\ \/ cfg.exclude_chars # NoExclude /\ cfg.include_all
        \/ cfg.encoded /\ cfg.urlsafe)
        => (/\ ret.status = "KeyException"
            /\ runs = 0
            /\ _key = None
            /\ key_cached = None)

\* C18, the failing case: exclude_chars=0 with include_all_chars=True is
\* constructed
C18_ZeroExclusionConstructed ==
    /\ Constructed
    /\ ret.status = "ok"
    /\ cfg.exclude_chars = ExIdx(0)
    /\ cfg.include_all

\* C19: outside word mode a constructor call with a separator of more than
\* one character raises KeyException; in word mode the separator's length
\* is no reason to raise: the call returns whenever the mutually exclusive
\* arguments allow it.
C19_SeparatorLength ==
    /\ (Constructed /\ ~cfg.use_words /\ Len(cfg.sep_arg) > 1)
           => (ret.status = "KeyException" /\ phase = "failed")
    /\ (Constructed /\ cfg.use_words /\ CombosOk(cfg))
           => (ret.status = "ok" /\ Len(cfg.sep) <= Len(cfg.sep_arg))

\* C19 happens: a two-character separator outside word mode was rejected
C19_LongSeparatorRejected ==
    /\ Constructed
    /\ ~cfg.use_words
    /\ cfg.sep_arg = <<"-", "-">>
    /\ ret.status = "KeyException"


C21_IndexResetAfterStop ==
    (ret.op = "next" /\ ret.status = "StopIteration") => index = 0

\* C21, the failing case: next() has raised StopIteration and index still
\* holds the number of items handed out
C21_IndexKeptAfterStop ==
    /\ ret.op = "next"
    /\ ret.status = "StopIteration"
    /\ index > 0
    /\ index = nexts

\* the default number of keys the class docstring states (line 164)
DocumentedNumKeys == 2

\* C22: on an instance without num_of_keys the bundle that `keys` builds
\* has the documented default number of fields.
C22_DefaultBundleSize ==
    (cfg.num_of_keys = 0 /\ _keys # None) => Len(_keys.v) = DocumentedNumKeys

\* C22, the failing case: `keys` has returned, without num_of_keys, a
\* bundle of DefaultNumKeys fields
C22_FiveKeyBundle ==
    /\ cfg.num_of_keys = 0
    /\ ret.op = "keys"
    /\ ret.status = "ok"
    /\ ret.val = _keys
    /\ Len(_keys.v) = DefaultNumKeys
    /\ DefaultNumKeys # DocumentedNumKeys

(***************************************************************************)
(* SpecLog: the module's logger, shared by the instances and the threads.  *)
(***************************************************************************)
\* the instance state, which logging leaves alone
instvars == <<cfg, unique_chars, _key, key_cached, _keys, index, nexts, futures, collected, phase, ret, runs>>

\* the texts of two advisory messages
Advisories == {"[UNIQUE-CHARS]", "[EXCLUDE-CHARS]"}

\* the module after import, before any instance is constructed
InitLog == InitInstance(Config(2, NoExclude, FALSE, FALSE, FALSE, FALSE, MaxKeys, <<>>, NoWidth), FALSE)

\* KeyCraftsman(verbose=...) for instance i, line 377: the constructor
\* sets logger.disabled of the one logger of the module
NewInstance(i, verbose) ==
    /\ verbose_arg[i] = "unset"
    /\ verbose_arg' = [verbose_arg EXCEPT ![i] = IF verbose THEN "verbose" ELSE "quiet"]
    /\ logger_disabled' = ~verbose
    /\ UNCHANGED <<logged, emitted, in_filter>>
    /\ UNCHANGED instvars
    /\ UNCHANGED fsvars

\* thread t, working for instance i, makes the advisory m: KeyException(...,
\* log_method=logger.warning) calls the logger (lines 68-80), whose handle()
\* drops the record when the logger is disabled and otherwise hands it to
\* the stream handler, which consults its filter
Advise(t, i, m) ==
    /\ in_filter[t].stage \in {"idle", "disabled", "dropped", "emitted"}
    /\ verbose_arg[i] # "unset"
    /\ in_filter' = [in_filter EXCEPT ![t] =
                        [inst |-> i, msg |-> m,
                         stage |-> IF logger_disabled THEN "disabled" ELSE "entered"]]
    /\ UNCHANGED <<logger_disabled, logged, emitted, verbose_arg>>
    /\ UNCHANGED instvars
    /\ UNCHANGED fsvars

\* FilterLog.filter, line 38: the test `getMessage() not in self.logged`;
\* the handler calls its filters without holding its lock
FilterTest(t) ==
    /\ in_filter[t].stage = "entered"
    /\ in_filter' = [in_filter EXCEPT ![t].stage =
                        IF in_filter[t].msg \notin logged THEN "passed" ELSE "dropped"]
    /\ UNCHANGED <<logger_disabled, logged, emitted, verbose_arg>>
    /\ UNCHANGED instvars
    /\ UNCHANGED fsvars

\* FilterLog.filter, lines 39-40: the message is added to self.logged and
\* True is returned, upon which the handler writes the record
FilterAdd(t) ==
    /\ in_filter[t].stage = "passed"
    /\ logged' = logged \cup {in_filter[t].msg}
    /\ emitted' = Append(emitted, in_filter[t].msg)
    /\ in_filter' = [in_filter EXCEPT ![t].stage = "emitted"]
    /\ UNCHANGED <<logger_disabled, verbose_arg>>
    /\ UNCHANGED instvars
    /\ UNCHANGED fsvars

NextLog ==
    \/ \E i \in Instances, verbose \in BOOLEAN : NewInstance(i, verbose)
    \/ \E t \in Threads, i \in Instances, m \in Advisories : Advise(t, i, m)
    \/ \E t \in Threads : FilterTest(t)
    \/ \E t \in Threads : FilterAdd(t)

SpecLog == InitLog /\ [][NextLog]_vars

\* how often the stream handler has written the text m
TimesEmitted(m) == Cardinality({k \in DOMAIN emitted : emitted[k] = m})

\* C23: every advisory text is written at most once, also when threads
\* make the same advisory at the same time.
C23_EmittedOnce == \A m \in Advisories : TimesEmitted(m) <= 1

\* C23, the failing case: two threads were both past the filter's test
\* before either added the text, and the text has been written twice
C23_EmittedTwice ==
    \E m \in Advisories :
        /\ TimesEmitted(m) = 2
        /\ m \in logged
        /\ \E t, u \in Threads :
              /\ t # u
              /\ in_filter[t] = [inst |-> "A", msg |-> m, stage |-> "emitted"]
              /\ in_filter[u] = [inst |-> "A", msg |-> m, stage |-> "emitted"]

\* C24: whether an advisory of an instance reaches the handler is decided
\* by the verbose argument that instance was constructed with, whatever
\* other instances were constructed since.
C24_OwnVerboseDecides ==
    \A t \in Threads :
        in_filter[t].stage # "idle"
            => (in_filter[t].stage = "disabled" <=> verbose_arg[in_filter[t].inst] = "quiet")

\* C24, the failing case: A was constructed with verbose on, B with verbose
\* off, and an advisory of A has been dropped by the disabled logger
C24_SilencedByOther ==
    /\ verbose_arg = [i \in Instances |-> IF i = "A" THEN "verbose" ELSE "quiet"]
    /\ \E t \in Threads :
          /\ in_filter[t].inst = "A"
          /\ in_filter[t].stage = "disabled"

(***************************************************************************)
(* SpecSecure: generate_secure_keys(num_of_keys).                          *)
(***************************************************************************)
\* key_length of generate_secure_keys (line 1804), scaled to the alphabet
SecureKeyLength == 2

\* the default of num_of_keys of generate_secure_keys (line 1779)
SecureDefaultNumKeys == 2

\* num_of_keys: None (0), one key, the default, the hard maximum
SecureNumKeys == {0, 1, SecureDefaultNumKeys, _MAX_CAPACITY}

\* lines 1803-1811: the instance generate_secure_keys constructs
InitSecure ==
    \E n \in SecureNumKeys :
        InitInstance(Config(SecureKeyLength, NoExclude, TRUE, FALSE, FALSE, TRUE, n, <<>>, NoWidth), TRUE)

\* lines 1812-1815 without a key file: _get_method(secure_key, attr="key",
\* status=num_of_keys) is `keys` when num_of_keys is truthy, else `key`
SecureCall ==
    /\ ret = NoRet
    /\ IF cfg.num_of_keys # 0 THEN AccessKeys ELSE AccessKey

NextSecure ==
    \/ SecureCall
    \/ \E i \in DOMAIN futures : WorkerRun(i)
    \/ \E i \in DOMAIN futures : Collect(i)

SpecSecure == InitSecure /\ [][NextSecure]_vars

\* x is a bytes key: the URL-safe base64 encoding of SecureKeyLength
\* pairwise distinct characters
SecureKey(x) ==
    /\ x.t = "bytes"
    /\ LET d == urlsafe_b64decode(x.v)
       IN  /\ d.ok
           /\ Len(d.val) = SecureKeyLength
           /\ Cardinality({d.val[i] : i \in DOMAIN d.val}) = SecureKeyLength
           /\ urlsafe_b64encode(d.val) = x.v

UniqueExempt(c) ==
    /\ c.exclude_chars.kind = "tag"
    /\ \E i \in DOMAIN _UNIQUE_DISABLED : _UNIQUE_DISABLED[i].name = c.exclude_chars.tag

\* key_length is valid and exceeds the number of distinct characters of the
\* filtered alphabet, which is not empty
ExceedsAlphabet(c) ==
    /\ c.key_length \in 1..MaxLen
    /\ LET filtered == FilteredChars(slicer(_check_scale(c.key_length)), c.exclude_chars,
                                     c.include_all)
       IN  /\ filtered.ok
           /\ filtered.val # <<>>
           /\ c.key_length > Cardinality(CharSet(filtered.val))

\* C26: a call of _generate_key with unique_chars requested and a
\* key_length above the number of distinct characters of the filtered
\* alphabet returns a key that is not unique, if bypass_unique_limit is
\* set or the exclusion spec is an entry of _UNIQUE_DISABLED.
C26_ExemptFromUniqueLimit ==
    [][(/\ ret = NoRet
        /\ unique_chars
        /\ ExceedsAlphabet(cfg)
        /\ cfg.bypass_unique \/ UniqueExempt(cfg))
           => (/\ ret'.status = "ok"
               /\ ~unique_test(ret'.val.v))]_vars

\* C26, the failing case: with the exclusion "ascii_punct", unique_chars
\* and no bypass_unique_limit, a key_length above the alphabet's size has
\* raised KeyException
C26_ExemptRaised ==
    /\ ret.op = "_generate_key"
    /\ ret.status = "KeyException"
    /\ cfg.exclude_chars = ExTag("ascii_punct")
    /\ ~cfg.bypass_unique
    /\ unique_chars
    /\ ExceedsAlphabet(cfg)

(***************************************************************************)
(* SpecFilter: _filter_chars over sources, exclusions and inclusions.      *)
(***************************************************************************)
\* the characters of the sources: a letter, a punctuation mark, the single
\* space, a tab
FilterSourceChars == {"a", "#", " ", "\t"}

\* sources of up to MaxLen characters
FilterSources == UNION {[1..n -> FilterSourceChars] : n \in 0..MaxLen}

\* exclude_chars arguments, among them the whole alphabet
FilterExcludes == {<<>>, <<"a">>, <<"#">>, <<"a", "#">>, _ALL_CHARS}

\* include_chars arguments
FilterIncludes == {<<>>, <<" ">>, <<"\t">>, <<"a">>, <<"\t", " ">>}

\* a call _filter_chars(chars, include_chars=..., exclude_chars=...) is
\* about to be made; cfg holds the arguments of this call
InitFilter ==
    \E chars \in FilterSources, i \in FilterIncludes, e \in FilterExcludes :
        /\ cfg = [chars |-> chars, include_chars |-> i, exclude_chars |-> e]
        /\ unique_chars = FALSE
        /\ _key = None
        /\ key_cached = None
        /\ _keys = None
        /\ index = 0
        /\ nexts = 0
        /\ futures = <<>>
        /\ collected = <<>>
        /\ phase = "idle"
        /\ ret = NoRet
        /\ runs = 0
        /\ LogImported
        /\ NoFiles

\* the call of _filter_chars
CallFilterChars ==
    /\ ret = NoRet
    /\ LET r == _filter_chars(cfg.chars, cfg.include_chars, cfg.exclude_chars)
       IN  ret' = IF r.ok
                  THEN Returned("_filter_chars", Str(r.val))
                  ELSE Raised("_filter_chars", r.err)
    /\ UNCHANGED <<cfg, unique_chars, _key, key_cached, _keys, index, nexts, futures, collected,
                   phase, runs>>
    /\ UNCHANGED logvars
    /\ UNCHANGED fsvars

NextFilter == CallFilterChars

SpecFilter == InitFilter /\ [][NextFilter]_vars

\* C27: _filter_chars returns the source without the characters of
\* exclude_chars and the whitespace characters that include_chars does not
\* name, and with every other character in its place.
C27_FilterRemovesExactly ==
    (ret.op = "_filter_chars" /\ ret.status = "ok") =>
        LET keep == CharSet(cfg.include_chars)
            removed == (CharSet(cfg.exclude_chars) \ keep) \cup (CharSet(whitespace) \ keep)
        IN  ret.val.v = SelectSeq(cfg.chars, LAMBDA c : c \notin removed)

\* C27, the failing case: include_chars names the tab, the source holds a
\* tab, and the result holds none
C27_IncludedTabRemoved ==
    /\ ret.op = "_filter_chars"
    /\ ret.status = "ok"
    /\ cfg.include_chars = <<"\t">>
    /\ "\t" \in CharSet(cfg.chars)
    /\ "\t" \notin CharSet(ret.val.v)

(***************************************************************************)
(* The order of the pipeline's stages, checked under Spec.                 *)
(***************************************************************************)
\* x is a bytes key that came out of assemble, wrap, encode in this order,
\* each once: it decodes to a text that is the wrapping of the raw key of
\* key_length characters, and it is the encoding of that text
WrappedThenEncoded(x) ==
    LET d == decode_key(x, IF cfg.urlsafe THEN "urlsafe" ELSE "default")
    IN  /\ d.ok
        /\ LET text == d.val.v
               raw == Translate(text, CharSet(cfg.sep))
           IN  /\ Len(raw) = cfg.key_length
               /\ _wrap_text(raw, cfg.sep, cfg.width, cfg.include_all) = Ok(text)
               /\ x.v = encode_key(text, cfg.urlsafe)

\* C28: on an instance with a separator and an encoding, every bytes key
\* that `key` returns, and every bytes field of the bundle that `keys`
\* returns, is the encoding of the separator-wrapped raw key.
C28_WrapBeforeEncode ==
    (cfg.sep # <<>> /\ _encode_key(cfg) /\ ret.status = "ok") =>
        /\ (ret.op = "key" /\ ret.val.t = "bytes") => WrappedThenEncoded(ret.val)
        /\ ret.op = "keys" =>
               \A j \in DOMAIN ret.val.v :
                   ret.val.v[j].val.t = "bytes" => WrappedThenEncoded(ret.val.v[j].val)

\* C28 happens: `key` has returned the URL-safe encoding of a key wrapped
\* with the separator
C28_EncodedWrappedKey ==
    /\ cfg.sep = <<"-">>
    /\ cfg.urlsafe
    /\ ret.op = "key"
    /\ ret.status = "ok"
    /\ ret.val.t = "bytes"
    /\ runs = 1
    /\ WrappedThenEncoded(ret.val)
    /\ "-" \in CharSet(decode_key(ret.val, "urlsafe").val.v)

(***************************************************************************)
(* SpecScale: _check_scale over the key lengths.                           *)
(***************************************************************************)
\* key lengths from below the valid range to above it
ScaleLengths == (-2)..(_MAX_CAPACITY + 1)

\* an instance with key_length = l, before _generate_key asks for the size
\* of the cyclic buffer
InitScale ==
    \E l \in ScaleLengths :
        InitInstance(Config(l, NoExclude, FALSE, FALSE, FALSE, FALSE, 0, <<>>, NoWidth), FALSE)

\* _check_scale(self._key_length), lines 1043-1072: the length is checked
\* first (line 1044)
CallCheckScale ==
    /\ ret = NoRet
    /\ LET checked == _length_checker(cfg.key_length)
       IN  ret' = IF checked.ok
                  THEN Returned("_check_scale", [t |-> "int", v |-> <<_check_scale(cfg.key_length)>>])
                  ELSE Raised("_check_scale", checked.err)
    /\ UNCHANGED <<cfg, unique_chars, _key, key_cached, _keys, index, nexts, futures, collected,
                   phase, runs>>
    /\ UNCHANGED logvars
    /\ UNCHANGED fsvars

NextScale == CallCheckScale

SpecScale == InitScale /\ [][NextScale]_vars

\* C29: for a key_length L with 0 < L < _MAX_CAPACITY, _check_scale returns
\* a size of at least L, which is _MIN_CAPACITY when L is below
\* _MIN_CAPACITY; the cyclic buffer of that size holds at least L characters.
C29_BufferHoldsLength ==
    (ret.op = "_check_scale" /\ cfg.key_length \in 1..(_MAX_CAPACITY - 1)) =>
        /\ ret.status = "ok"
        /\ ret.val.v[1] >= cfg.key_length
        /\ cfg.key_length < _MIN_CAPACITY => ret.val.v[1] = _MIN_CAPACITY
        /\ Len(slicer(ret.val.v[1])) >= cfg.key_length

\* C29 happens: for a length above _MIN_CAPACITY the size is not the
\* minimum, and it is at least the length
C29_ScaledAboveMinimum ==
    /\ ret.op = "_check_scale"
    /\ ret.status = "ok"
    /\ cfg.key_length > _MIN_CAPACITY
    /\ ret.val.v[1] > _MIN_CAPACITY
    /\ ret.val.v[1] >= cfg.key_length


(***************************************************************************)
(* The key file: _get_filename, file_exists and export_key                 *)
(***************************************************************************)
\* line 1646: default_name
DefaultName == "generated_key"

\* keyfile_name arguments: None ("") and a name of the caller's
KeyFileNames == {"", "my_key"}

\* lines 1632-1633: the trailing IDs make_it_unique can draw
TrailIds == {"ID91678", "ID98617"}

\* every key file an export of the model can name
AllKeyFiles == {KeyFile(n, t) : n \in {DefaultName, "my_key"}, t \in {""} \cup TrailIds}

\* the constructor's arguments with keyfile_name and overwrite_keyfile
ExportArgs(c, keyfile_name, overwrite_keyfile) == c @@ [keyfile_name |-> keyfile_name, overwrite |-> overwrite_keyfile]

\* what _get_filename comes to: a path, or RecursionError
Resolved(file) == [ok |-> TRUE, file |-> file]
NeverResolved == [ok |-> FALSE, file |-> NoFile]

\* file_exists(file) without change_file, in the directory dir
file_exists(file, dir) == file \in dir

\* file_exists(file, change_file=True): make_it_unique returns the file when
\* it does not exist, else it draws trailing IDs for the original stem until
\* the name is free; a draw of taken names only ends in RecursionError
make_it_unique(unique_file, fp_name, dir) ==
    IF ~file_exists(unique_file, dir)
    THEN {Resolved(unique_file)}
    ELSE LET candidates == {KeyFile(fp_name, t) : t \in TrailIds}
         IN  {Resolved(f) : f \in candidates \ dir}
             \cup (IF candidates \cap dir # {} THEN {NeverResolved} ELSE {})

\* the body of _get_filename, in the directory dir
_get_filename(c, dir) ==
    LET fp_name == IF c.keyfile_name # "" THEN c.keyfile_name ELSE DefaultName
        file == KeyFile(fp_name, "")
        file_found == file_exists(file, dir)
    IN  IF ~c.overwrite /\ file_found
        THEN make_it_unique(file, fp_name, dir)
        ELSE {Resolved(file)}

\* the call self._get_filename(): functools.cache returns what the first
\* call on the instance returned
GetFilename ==
    IF filename_cache # NoFile
    THEN {Resolved(filename_cache)}
    ELSE _get_filename(cfg, files)

\* an instance with a key of one character and its key file arguments
InitExport ==
    \E kf \in KeyFileNames, ow \in BOOLEAN, en \in BOOLEAN :
        InitInstance(ExportArgs(Config(1, NoExclude, FALSE, FALSE, en, FALSE, 0, <<>>, NoWidth), kf, ow), FALSE)

\* export_key() with its key file: the name is resolved, open(fp, "w")
\* creates or empties the file, then str(self.key) is written
ExportKeyFile ==
    /\ phase = "idle"
    /\ \E r \in GetFilename :
          IF ~r.ok
          THEN /\ ret' = Raised("export_key", "RecursionError")
               /\ UNCHANGED <<unique_chars, _key, key_cached, runs>>
               /\ UNCHANGED fsvars
          ELSE /\ filename_cache' = r.file
               /\ files' = files \cup {r.file}
               /\ written' = [path |-> r.file, existed |-> file_exists(r.file, files)]
               /\ \E o \in KeyAccess :
                     /\ ApplyKey(o)
                     /\ ret' = IF o.status = "ok"
                               THEN Returned("export_key", Str(PyStr(o.val)))
                               ELSE Raised("export_key", o.status)
    /\ UNCHANGED <<cfg, _keys, index, nexts, futures, collected, phase>>
    /\ UNCHANGED logvars

\* another instance or program writes the file f to the working directory
FileAppears(f) ==
    /\ f \notin files
    /\ files' = files \cup {f}
    /\ UNCHANGED <<filename_cache, written>>
    /\ UNCHANGED instvars
    /\ UNCHANGED logvars

\* the file f is removed from the working directory
FileRemoved(f) ==
    /\ f \in files
    /\ files' = files \ {f}
    /\ UNCHANGED <<filename_cache, written>>
    /\ UNCHANGED instvars
    /\ UNCHANGED logvars

NextExport ==
    \/ ExportKeyFile
    \/ \E f \in AllKeyFiles : FileAppears(f)
    \/ \E f \in AllKeyFiles : FileRemoved(f)

SpecExport == InitExport /\ [][NextExport]_vars

\* C30: with overwrite_keyfile false no export_key call writes to a path
\* at which a file already exists, repeated exports of one instance
\* included.
C30_NeverOverwrites ==
    (~cfg.overwrite /\ written # NoWrite) => ~written.existed

\* an instance with overwrite_keyfile false has exported its key a second
\* time and opened, for writing, the file its first export had written
C30_SecondExportOverwrote ==
    /\ ~cfg.overwrite
    /\ written.existed
    /\ written.path = filename_cache
    /\ written.path \in files
    /\ ret.op = "export_key"
    /\ ret.status = "ok"

=============================================================================
